---- MODULE Spec2Model ----
(***************************************************************************)
(* The MongoDB-backed job queue of the lead management backend:            *)
(*   - ingestion (webhook controllers, createLead) saves a Lead and then   *)
(*     bulk-inserts one Job per delivery type;                             *)
(*   - workers run processNextJob (src/lib/worker.js) inside the polling   *)
(*     loop of startWorker (src/lib/workerTask.js);                        *)
(*   - admins call retryLeadJobs (src/controllers/leadController.js).      *)
(* Every awaited store call is one atomic step; the code between two       *)
(* awaits runs without interleaving (single-threaded event loop) and is    *)
(* folded into the step that precedes it.  Any store call may raise.       *)
(* workerTask.js carries an older copy of processNextJob that differs from *)
(* worker.js only in lacking the aggregation after COMPLETED; the model    *)
(* follows worker.js.                                                      *)
(***************************************************************************)
EXTENDS Integers, FiniteSets, Sequences, TLC

\* ---------------------------------------------------------------- constants
MAX_ATTEMPTS == 3
BASE_DELAY_MS == 5000
BACKOFF_FACTOR == 5
POLLING_INTERVAL_MS == 5000

\* ------------------------------------------------------------------- bounds
MaxNow == 30000
MaxRetryCalls == 2
MaxStoreErrors == 1
MaxCrashes == 1
MaxSheetCalls == 2

Workers == {"w1", "w2"}
Admins == {"a1", "a2"}
Leads == {"L1"}
JOB_TYPES == {"append_to_sheets", "push_to_bitrix"}
JobIds == Leads \X JOB_TYPES

LeadOf(j) == j[1]
TypeOf(j) == j[2]

NoJob == <<"none", "none">>

VARIABLES
  horizon,      \* last instant of the observed window, ms (never changes)
  now,          \* wall clock, ms
  leadStatus,   \* Lead.status, "none" while no Lead document exists
  hasSource,    \* Lead.sourceId resolves to a Source document
  subStatus,    \* Lead.sheetStatus / Lead.bitrixStatus, by job id
  jobs,         \* the Job collection: job id -> document ("absent" before insert)
  ipc,          \* ingestion request of each Lead
  pc,           \* position of each worker in startWorker/processNextJob
  wjob,         \* worker local `job`: id of the claimed document
  wattempts,    \* worker local `job.attempts` (snapshot returned by the claim)
  success,      \* worker local `success`
  newStatus,    \* worker local `newStatus` (catch block)
  newRunAt,     \* worker local `newRunAt` (catch block)
  released,     \* history: this call already wrote an outcome to its Job
  wroteLead,    \* history: this call already wrote Lead.status
  apc,          \* position of each admin request in retryLeadJobs
  aLead,        \* admin local `leadId`
  aIds,         \* admin local `jobIdsToRetry`
  retryCalls,   \* number of retryLeadJobs requests made so far
  storeErrors,  \* number of store calls that raised
  configured,   \* delivery target set up, by job type: sheetId and sheetName
                \* of the Source config, BITRIX_WEBHOOK_URL (never changes)
  sink,         \* the external sink of the Job's type holds the Lead
  sheet,        \* rows of the sheet tab, in order: "header" or "row"
  hpc,          \* position of each worker inside appendLeadToSheet
  headerExists, \* appendLeadToSheet local `headerExists`
  hcalls        \* number of appendLeadToSheet calls each worker has made

vars == <<horizon, now, leadStatus, hasSource, subStatus, jobs, ipc, pc, wjob, wattempts, success,
          newStatus, newRunAt, released, wroteLead, apc, aLead, aIds,
          retryCalls, storeErrors, configured, sink,
          sheet, hpc, headerExists, hcalls>>

workerVars == <<pc, wjob, wattempts, success, newStatus, newRunAt, released, wroteLead>>
adminVars == <<apc, aLead, aIds, retryCalls>>
storeVars == <<leadStatus, subStatus, jobs>>
deliveryVars == <<configured, sink>>
sheetVars == <<sheet, hpc, headerExists, hcalls>>

\* ------------------------------------------------------------------ schema
jobSchema ==
  [status: {"absent", "QUEUED", "PROCESSING", "COMPLETED", "FAILED"},
   attempts: Nat, lastError: {"null", "error"}, runAt: Nat]

AbsentJob == [status |-> "absent", attempts |-> 0, lastError |-> "null", runAt |-> 0]

\* a document inserted with runAt one minute ahead
NewJob_Delayed(t) ==
  [status |-> "QUEUED", attempts |-> 0, lastError |-> "null", runAt |-> t + 60000]

\* a document as Job.insertMany stores it: schema defaults, runAt = Date.now
NewJob(t) == [status |-> "QUEUED", attempts |-> 0, lastError |-> "null", runAt |-> t]

LEAD_STATUSES == {"new", "queued", "processing", "success", "failed", "duplicate"}

TypeOK ==
  /\ horizon \in Nat
  /\ now \in Nat
  /\ now <= horizon
  /\ leadStatus \in [Leads -> LEAD_STATUSES \cup {"none"}]
  /\ hasSource \in [Leads -> BOOLEAN]
  /\ subStatus \in [JobIds -> {"PENDING", "SUCCESS", "FAILED"}]
  /\ jobs \in [JobIds -> jobSchema]
  /\ wjob \in [Workers -> JobIds \cup {NoJob}]
  /\ configured \in [JOB_TYPES -> BOOLEAN]
  /\ sink \in [JobIds -> BOOLEAN]
  /\ sheet \in Seq({"header", "row"})
  /\ hpc \in [Workers -> {"idle", "check", "header", "row"}]
  /\ headerExists \in [Workers -> BOOLEAN]
  /\ hcalls \in [Workers -> Nat]

Init ==
  /\ horizon = MaxNow
  /\ now = 0
  /\ leadStatus = [l \in Leads |-> "none"]
  /\ hasSource = [l \in Leads |-> TRUE]
  /\ subStatus = [j \in JobIds |-> "PENDING"]
  /\ jobs = [j \in JobIds |-> AbsentJob]
  /\ ipc = [l \in Leads |-> "new"]
  /\ pc = [w \in Workers |-> "claim"]
  /\ wjob = [w \in Workers |-> NoJob]
  /\ wattempts = [w \in Workers |-> 0]
  /\ success = [w \in Workers |-> FALSE]
  /\ newStatus = [w \in Workers |-> "none"]
  /\ newRunAt = [w \in Workers |-> 0]
  /\ released = [w \in Workers |-> FALSE]
  /\ wroteLead = [w \in Workers |-> FALSE]
  /\ apc = [a \in Admins |-> "idle"]
  /\ aLead = [a \in Admins |-> "none"]
  /\ aIds = [a \in Admins |-> {}]
  /\ retryCalls = 0
  /\ storeErrors = 0
  /\ configured = [t \in JOB_TYPES |-> TRUE]
  /\ sink = [j \in JobIds |-> FALSE]
  /\ sheet = <<>>
  /\ hpc = [w \in Workers |-> "idle"]
  /\ headerExists = [w \in Workers |-> FALSE]
  /\ hcalls = [w \in Workers |-> 0]

\* a store call may raise while the error budget lasts
MayRaise == storeErrors < MaxStoreErrors
Raise == storeErrors' = storeErrors + 1

\* ---------------------------------------------------------------- the clock
\* runAt values of QUEUED Jobs that lie in the future: the instants at which
\* the claim filter changes its answer
Deadlines == {jobs[j].runAt : j \in {k \in JobIds : jobs[k].status = "QUEUED" /\ jobs[k].runAt > now}}

\* The clock is read by the claim filter (runAt <= now) and by the writers of
\* runAt only, so time is advanced from one deadline to the next.
Tick ==
  /\ \E t \in Deadlines :
       /\ \A u \in Deadlines : t <= u
       /\ t <= horizon
       /\ now' = t
  /\ UNCHANGED <<sheetVars, deliveryVars, horizon, hasSource, storeVars, ipc, workerVars, adminVars, storeErrors>>

\* --------------------------------------------------------------- ingestion
\* newLead.save() with status LEAD_STATUSES.QUEUED
IngestSaveLead(l) ==
  /\ ipc[l] = "new"
  /\ leadStatus' = [leadStatus EXCEPT ![l] = "queued"]
  /\ ipc' = [ipc EXCEPT ![l] = "saved"]
  /\ UNCHANGED <<sheetVars, deliveryVars, horizon, hasSource, now, subStatus, jobs, workerVars, adminVars, storeErrors>>

\* Job.insertMany([...]) : one Job per delivery type
IngestInsertJobs(l) ==
  /\ ipc[l] = "saved"
  /\ jobs' = [j \in JobIds |-> IF LeadOf(j) = l THEN NewJob(now) ELSE jobs[j]]
  /\ ipc' = [ipc EXCEPT ![l] = "done"]
  /\ UNCHANGED <<sheetVars, deliveryVars, horizon, hasSource, now, leadStatus, subStatus, workerVars, adminVars, storeErrors>>

\* Job.insertMany raises: the request answers 500, the Lead stays saved
IngestInsertError(l) ==
  /\ ipc[l] = "saved"
  /\ MayRaise /\ Raise
  /\ ipc' = [ipc EXCEPT ![l] = "failed"]
  /\ UNCHANGED <<sheetVars, deliveryVars, horizon, hasSource, now, storeVars, workerVars, adminVars>>

\* ------------------------------------------------- worker: processNextJob
\* Math.pow(5, n)
RECURSIVE Pow(_, _)
Pow(b, n) == IF n <= 0 THEN 1 ELSE b * Pow(b, n - 1)

\* a linear backoff in place of the exponential one
Delay_Linear(attempts) == BASE_DELAY_MS * attempts

\* const delay = 5000 * Math.pow(5, job.attempts - 1)
Delay(attempts) == BASE_DELAY_MS * Pow(BACKOFF_FACTOR, attempts - 1)

\* a failure handling that always retries
IsRetryable_Always(attempts) == attempts >= 0

\* const isRetryable = job.attempts < MAX_ATTEMPTS
IsRetryable(attempts) == attempts < MAX_ATTEMPTS

\* a claim filter without the runAt condition
Eligible_IgnoresRunAt(j) == jobs[j].status = "QUEUED"

\* filter of the claim: { status: 'QUEUED', runAt: { $lte: new Date() } }
Eligible(j) == jobs[j].status = "QUEUED" /\ jobs[j].runAt <= now

\* a claim without the sort: any eligible document
ClaimCandidates_Unsorted == {j \in JobIds : Eligible(j)}

\* sort: { runAt: 1 } : the documents the claim may select
ClaimCandidates ==
  {j \in JobIds : Eligible(j) /\ \A k \in JobIds : Eligible(k) => jobs[j].runAt <= jobs[k].runAt}

\* a claim that forgets the $inc of attempts
ClaimUpdate_NoInc(doc) == [doc EXCEPT !.status = "PROCESSING"]

\* update of the claim: $set status PROCESSING, $inc attempts 1
ClaimUpdate(doc) == [doc EXCEPT !.status = "PROCESSING", !.attempts = doc.attempts + 1]

\* Job.countDocuments({ lead, status: { $in: ['QUEUED', 'PROCESSING'] } })
PendingJobs(l) ==
  Cardinality({j \in JobIds : LeadOf(j) = l /\ jobs[j].status \in {"QUEUED", "PROCESSING"}})

\* Job.countDocuments({ lead, status: 'FAILED' })
FailedJobs(l) ==
  Cardinality({j \in JobIds : LeadOf(j) = l /\ jobs[j].status = "FAILED"})

\* processNextJob returns (or throws into startWorker): the locals die; the
\* loop polls again at once after `true`, sleeps after `false` or an exception
Return(w, result) ==
  /\ pc' = [pc EXCEPT ![w] = IF result THEN "claim" ELSE "sleep"]
  /\ wjob' = [wjob EXCEPT ![w] = NoJob]
  /\ wattempts' = [wattempts EXCEPT ![w] = 0]
  /\ success' = [success EXCEPT ![w] = FALSE]
  /\ newStatus' = [newStatus EXCEPT ![w] = "none"]
  /\ newRunAt' = [newRunAt EXCEPT ![w] = 0]
  /\ released' = [released EXCEPT ![w] = FALSE]
  /\ wroteLead' = [wroteLead EXCEPT ![w] = FALSE]

\* a catch block that marks the Lead on every failure, retryable or not
EnterCatch_AlwaysMarksLead(w) ==
  /\ pc' = [pc EXCEPT ![w] = "failLead"]
  /\ newStatus' = [newStatus EXCEPT ![w] = IF IsRetryable(wattempts[w]) THEN "QUEUED" ELSE "FAILED"]
  /\ newRunAt' = [newRunAt EXCEPT ![w] =
                    IF IsRetryable(wattempts[w]) THEN now + Delay(wattempts[w]) ELSE now]

\* entry of the catch block with `job` set: the retry decision is taken at once
EnterCatch(w) ==
  /\ pc' = [pc EXCEPT ![w] = IF IsRetryable(wattempts[w]) THEN "failJob" ELSE "failLead"]
  /\ newStatus' = [newStatus EXCEPT ![w] = IF IsRetryable(wattempts[w]) THEN "QUEUED" ELSE "FAILED"]
  /\ newRunAt' = [newRunAt EXCEPT ![w] =
                    IF IsRetryable(wattempts[w]) THEN now + Delay(wattempts[w]) ELSE now]

\* Job.findOneAndUpdate finds a document: one atomic select-and-update
ClaimJob(w) ==
  /\ pc[w] = "claim"
  /\ \E j \in ClaimCandidates :
       /\ jobs' = [jobs EXCEPT ![j] = ClaimUpdate(jobs[j])]
       /\ wjob' = [wjob EXCEPT ![w] = j]
       /\ wattempts' = [wattempts EXCEPT ![w] = jobs'[j].attempts]
  /\ pc' = [pc EXCEPT ![w] = "populate"]
  /\ UNCHANGED <<sheetVars, deliveryVars, horizon, hasSource, now, leadStatus, subStatus, ipc, success, newStatus, newRunAt,
                 released, wroteLead, adminVars, storeErrors>>

\* Job.findOneAndUpdate finds nothing: return false
ClaimNone(w) ==
  /\ pc[w] = "claim"
  /\ ClaimCandidates = {}
  /\ Return(w, FALSE)
  /\ UNCHANGED <<sheetVars, deliveryVars, horizon, hasSource, now, storeVars, ipc, adminVars, storeErrors>>

\* Job.findOneAndUpdate raises: `job` is undefined in the catch block, return false
ClaimError(w) ==
  /\ pc[w] = "claim"
  /\ MayRaise /\ Raise
  /\ Return(w, FALSE)
  /\ UNCHANGED <<sheetVars, deliveryVars, horizon, hasSource, now, storeVars, ipc, adminVars>>

\* await sleep(POLLING_INTERVAL_MS) is over
Wake(w) ==
  /\ pc[w] = "sleep"
  /\ pc' = [pc EXCEPT ![w] = "claim"]
  /\ UNCHANGED <<sheetVars, deliveryVars, horizon, hasSource, now, storeVars, ipc, wjob, wattempts, success, newStatus, newRunAt,
                 released, wroteLead, adminVars, storeErrors>>

\* .populate('lead' -> 'sourceId') answers; `job` is assigned, then
\* `if (!lead || !lead.sourceId) throw`
Populate(w) ==
  /\ pc[w] = "populate"
  /\ IF leadStatus[LeadOf(wjob[w])] = "none" \/ ~hasSource[LeadOf(wjob[w])]
       THEN EnterCatch(w)
       ELSE pc' = [pc EXCEPT ![w] = "handler"] /\ UNCHANGED <<newStatus, newRunAt>>
  /\ UNCHANGED <<sheetVars, deliveryVars, horizon, hasSource, now, storeVars, ipc, wjob, wattempts, success,
                 released, wroteLead, adminVars, storeErrors>>

\* .populate raises after the update was applied: `job` was never assigned,
\* the catch block skips its body and the call returns false
PopulateError(w) ==
  /\ pc[w] = "populate"
  /\ MayRaise /\ Raise
  /\ Return(w, FALSE)
  /\ UNCHANGED <<sheetVars, deliveryVars, horizon, hasSource, now, storeVars, ipc, adminVars>>

\* appendLeadToSheet / pushLeadToBitrix returns: true at once, without a
\* call to the sink, when the target is not configured; otherwise true after
\* the call to the sink succeeded and false after it failed (both catch the
\* errors of their sink and answer false)
RunHandler(w) ==
  /\ pc[w] = "handler"
  /\ IF ~configured[TypeOf(wjob[w])]
       THEN /\ success' = [success EXCEPT ![w] = TRUE]
            /\ UNCHANGED sink
       ELSE \E outcome \in BOOLEAN :
              /\ success' = [success EXCEPT ![w] = outcome]
              /\ sink' = [sink EXCEPT ![wjob[w]] = sink[wjob[w]] \/ outcome]
  /\ pc' = [pc EXCEPT ![w] = "subStatus"]
  /\ UNCHANGED <<sheetVars, configured, horizon, hasSource, now, storeVars, ipc, wjob, wattempts, newStatus, newRunAt,
                 released, wroteLead, adminVars, storeErrors>>

\* the handler throws: ErrorLog.create raises inside the handler's catch block
HandlerThrows(w) ==
  /\ pc[w] = "handler"
  /\ MayRaise /\ Raise
  /\ EnterCatch(w)
  /\ UNCHANGED <<sheetVars, deliveryVars, horizon, hasSource, now, storeVars, ipc, wjob, wattempts, success, released,
                 wroteLead, adminVars>>

\* Lead.updateOne({ sheetStatus | bitrixStatus: success ? 'SUCCESS' : 'FAILED' }),
\* then `if (success) ... else throw`
WriteSubStatus(w) ==
  /\ pc[w] = "subStatus"
  /\ subStatus' = [subStatus EXCEPT ![wjob[w]] = IF success[w] THEN "SUCCESS" ELSE "FAILED"]
  /\ IF success[w]
       THEN pc' = [pc EXCEPT ![w] = "complete"] /\ UNCHANGED <<newStatus, newRunAt>>
       ELSE EnterCatch(w)
  /\ UNCHANGED <<sheetVars, deliveryVars, horizon, hasSource, now, leadStatus, jobs, ipc, wjob, wattempts, success, released,
                 wroteLead, adminVars, storeErrors>>

\* Job.updateOne({ _id }, { $set: { status: 'COMPLETED' } })
CompleteJob(w) ==
  /\ pc[w] = "complete"
  /\ jobs' = [jobs EXCEPT ![wjob[w]].status = "COMPLETED"]
  /\ released' = [released EXCEPT ![w] = TRUE]
  /\ pc' = [pc EXCEPT ![w] = "countPending"]
  /\ UNCHANGED <<sheetVars, deliveryVars, horizon, hasSource, now, leadStatus, subStatus, ipc, wjob, wattempts, success, newStatus,
                 newRunAt, wroteLead, adminVars, storeErrors>>

\* const pendingJobs = await Job.countDocuments(...); if (pendingJobs === 0)
CountPending(w) ==
  /\ pc[w] = "countPending"
  /\ IF PendingJobs(LeadOf(wjob[w])) = 0
       THEN /\ pc' = [pc EXCEPT ![w] = "countFailed"]
            /\ UNCHANGED <<wjob, wattempts, success, newStatus, newRunAt, released, wroteLead>>
       ELSE Return(w, TRUE)
  /\ UNCHANGED <<sheetVars, deliveryVars, horizon, hasSource, now, storeVars, ipc, adminVars, storeErrors>>

\* const failedJobs = await Job.countDocuments(...); if (failedJobs === 0)
CountFailed(w) ==
  /\ pc[w] = "countFailed"
  /\ IF FailedJobs(LeadOf(wjob[w])) = 0
       THEN /\ pc' = [pc EXCEPT ![w] = "markSuccess"]
            /\ UNCHANGED <<wjob, wattempts, success, newStatus, newRunAt, released, wroteLead>>
       ELSE Return(w, TRUE)
  /\ UNCHANGED <<sheetVars, deliveryVars, horizon, hasSource, now, storeVars, ipc, adminVars, storeErrors>>

\* Lead.updateOne({ _id }, { $set: { status: LEAD_STATUSES.SUCCESS } }); return true
MarkLeadSuccess(w) ==
  /\ pc[w] = "markSuccess"
  /\ leadStatus' = [leadStatus EXCEPT ![LeadOf(wjob[w])] = "success"]
  /\ Return(w, TRUE)
  /\ UNCHANGED <<sheetVars, deliveryVars, horizon, hasSource, now, subStatus, jobs, ipc, adminVars, storeErrors>>

\* a store call inside the try block raises: control enters the catch block
TryStoreError(w) ==
  /\ pc[w] \in {"subStatus", "complete", "countPending", "countFailed", "markSuccess"}
  /\ MayRaise /\ Raise
  /\ EnterCatch(w)
  /\ UNCHANGED <<sheetVars, deliveryVars, horizon, hasSource, now, storeVars, ipc, wjob, wattempts, success, released, wroteLead, adminVars>>

\* catch block, not retryable: Lead.updateOne({ _id: job.lead._id }, { status:
\* LEAD_STATUSES.FAILED }).  With job.lead null the argument raises a
\* TypeError that leaves processNextJob before any write.
FailLead(w) ==
  /\ pc[w] = "failLead"
  /\ IF leadStatus[LeadOf(wjob[w])] = "none"
       THEN Return(w, FALSE) /\ UNCHANGED leadStatus
       ELSE /\ leadStatus' = [leadStatus EXCEPT ![LeadOf(wjob[w])] = "failed"]
            /\ wroteLead' = [wroteLead EXCEPT ![w] = TRUE]
            /\ pc' = [pc EXCEPT ![w] = "failJob"]
            /\ UNCHANGED <<wjob, wattempts, success, newStatus, newRunAt, released>>
  /\ UNCHANGED <<sheetVars, deliveryVars, horizon, hasSource, now, subStatus, jobs, ipc, adminVars, storeErrors>>

\* a failure write that also sets attempts back to 0
FailJob_ResetsAttempts(w) ==
  /\ pc[w] = "failJob"
  /\ jobs' = [jobs EXCEPT ![wjob[w]].status = newStatus[w],
                          ![wjob[w]].lastError = "error",
                          ![wjob[w]].runAt = newRunAt[w],
                          ![wjob[w]].attempts = 0]
  /\ Return(w, FALSE)
  /\ UNCHANGED <<sheetVars, deliveryVars, horizon, hasSource, now, leadStatus, subStatus, ipc, adminVars, storeErrors>>

\* catch block: Job.updateOne({ status: newStatus, lastError, runAt: newRunAt }); return false
FailJob(w) ==
  /\ pc[w] = "failJob"
  /\ jobs' = [jobs EXCEPT ![wjob[w]].status = newStatus[w],
                          ![wjob[w]].lastError = "error",
                          ![wjob[w]].runAt = newRunAt[w]]
  /\ Return(w, FALSE)
  /\ UNCHANGED <<sheetVars, deliveryVars, horizon, hasSource, now, leadStatus, subStatus, ipc, adminVars, storeErrors>>

\* a loop without the try/catch around processNextJob: the exception ends it
CatchStoreError_Escapes(w) ==
  /\ pc[w] \in {"failLead", "failJob"}
  /\ MayRaise /\ Raise
  /\ pc' = [pc EXCEPT ![w] = "terminated"]
  /\ UNCHANGED <<sheetVars, deliveryVars, horizon, hasSource, now, storeVars, ipc, wjob, wattempts, success, newStatus,
                 newRunAt, released, wroteLead, adminVars>>

\* a store call inside the catch block raises: the exception leaves
\* processNextJob and is caught by the loop of startWorker, which sleeps
CatchStoreError(w) ==
  /\ pc[w] \in {"failLead", "failJob"}
  /\ MayRaise /\ Raise
  /\ Return(w, FALSE)
  /\ UNCHANGED <<sheetVars, deliveryVars, horizon, hasSource, now, storeVars, ipc, adminVars>>

\* ---------------------------------------------------- admin: retryLeadJobs
\* a find that selects every Job of the Lead that is not COMPLETED
FindFailed_NotCompleted(l) ==
  {j \in JobIds : LeadOf(j) = l /\ jobs[j].status \in {"QUEUED", "PROCESSING", "FAILED"}}

\* const failedJobs = await Job.find({ lead: leadId, status: "FAILED" })
FindFailed(l) == {j \in JobIds : LeadOf(j) = l /\ jobs[j].status = "FAILED"}

\* a reset that leaves attempts as it is
RetryReset_KeepsAttempts(doc, t) ==
  [doc EXCEPT !.status = "QUEUED", !.lastError = "null", !.runAt = t]

\* a reset that leaves lastError as it is
RetryReset_KeepsError(doc, t) ==
  [doc EXCEPT !.status = "QUEUED", !.attempts = 0, !.runAt = t]

\* $set of Job.updateMany: status QUEUED, attempts 0, lastError null, runAt new Date()
RetryReset(doc, t) ==
  [doc EXCEPT !.status = "QUEUED", !.attempts = 0, !.lastError = "null", !.runAt = t]

\* Job.find answers; with no FAILED Job the request ends at once (200,
\* "No failed jobs found for this lead.")
RetryFind(a, l) ==
  /\ apc[a] = "idle"
  /\ retryCalls < MaxRetryCalls
  /\ leadStatus[l] # "none"
  /\ retryCalls' = retryCalls + 1
  /\ IF FindFailed(l) = {}
       THEN UNCHANGED <<apc, aLead, aIds>>
       ELSE /\ apc' = [apc EXCEPT ![a] = "updateMany"]
            /\ aLead' = [aLead EXCEPT ![a] = l]
            /\ aIds' = [aIds EXCEPT ![a] = FindFailed(l)]
  /\ UNCHANGED <<sheetVars, deliveryVars, horizon, hasSource, now, storeVars, ipc, workerVars, storeErrors>>

\* Job.updateMany({ _id: { $in: jobIdsToRetry } }, { $set: ... })
RetryUpdateMany(a) ==
  /\ apc[a] = "updateMany"
  /\ jobs' = [j \in JobIds |-> IF j \in aIds[a] /\ jobs[j].status # "absent"
                                 THEN RetryReset(jobs[j], now) ELSE jobs[j]]
  /\ apc' = [apc EXCEPT ![a] = "updateLead"]
  /\ UNCHANGED <<sheetVars, deliveryVars, horizon, hasSource, now, leadStatus, subStatus, ipc, workerVars, aLead, aIds, retryCalls,
                 storeErrors>>

\* Lead.updateOne({ _id: leadId }, { $set: { status: LEAD_STATUSES.QUEUED } })
RetryUpdateLead(a) ==
  /\ apc[a] = "updateLead"
  /\ leadStatus' = [leadStatus EXCEPT ![aLead[a]] = "queued"]
  /\ apc' = [apc EXCEPT ![a] = "idle"]
  /\ aLead' = [aLead EXCEPT ![a] = "none"]
  /\ aIds' = [aIds EXCEPT ![a] = {}]
  /\ UNCHANGED <<sheetVars, deliveryVars, horizon, hasSource, now, subStatus, jobs, ipc, workerVars, retryCalls, storeErrors>>

\* a store call of retryLeadJobs raises: the catch block answers 500
RetryStoreError(a) ==
  /\ apc[a] \in {"updateMany", "updateLead"}
  /\ MayRaise /\ Raise
  /\ apc' = [apc EXCEPT ![a] = "idle"]
  /\ aLead' = [aLead EXCEPT ![a] = "none"]
  /\ aIds' = [aIds EXCEPT ![a] = {}]
  /\ UNCHANGED <<sheetVars, deliveryVars, horizon, hasSource, now, storeVars, ipc, workerVars, retryCalls>>

\* ------------------------------------------------------------ specification
Next ==
  \/ Tick
  \/ \E l \in Leads : IngestSaveLead(l)
  \/ \E l \in Leads : IngestInsertJobs(l)
  \/ \E l \in Leads : IngestInsertError(l)
  \/ \E w \in Workers : ClaimJob(w)
  \/ \E w \in Workers : ClaimNone(w)
  \/ \E w \in Workers : ClaimError(w)
  \/ \E w \in Workers : Wake(w)
  \/ \E w \in Workers : Populate(w)
  \/ \E w \in Workers : PopulateError(w)
  \/ \E w \in Workers : RunHandler(w)
  \/ \E w \in Workers : HandlerThrows(w)
  \/ \E w \in Workers : WriteSubStatus(w)
  \/ \E w \in Workers : CompleteJob(w)
  \/ \E w \in Workers : CountPending(w)
  \/ \E w \in Workers : CountFailed(w)
  \/ \E w \in Workers : MarkLeadSuccess(w)
  \/ \E w \in Workers : TryStoreError(w)
  \/ \E w \in Workers : FailLead(w)
  \/ \E w \in Workers : FailJob(w)
  \/ \E w \in Workers : CatchStoreError(w)
  \/ \E a \in Admins, l \in Leads : RetryFind(a, l)
  \/ \E a \in Admins : RetryUpdateMany(a)
  \/ \E a \in Admins : RetryUpdateLead(a)
  \/ \E a \in Admins : RetryStoreError(a)

Spec == Init /\ [][Next]_vars

\* the same system with a store that answers every call
NextReliable ==
  \/ Tick
  \/ \E l \in Leads : IngestSaveLead(l)
  \/ \E l \in Leads : IngestInsertJobs(l)
  \/ \E w \in Workers : ClaimJob(w)
  \/ \E w \in Workers : ClaimNone(w)
  \/ \E w \in Workers : Wake(w)
  \/ \E w \in Workers : Populate(w)
  \/ \E w \in Workers : RunHandler(w)
  \/ \E w \in Workers : WriteSubStatus(w)
  \/ \E w \in Workers : CompleteJob(w)
  \/ \E w \in Workers : CountPending(w)
  \/ \E w \in Workers : CountFailed(w)
  \/ \E w \in Workers : MarkLeadSuccess(w)
  \/ \E w \in Workers : FailLead(w)
  \/ \E w \in Workers : FailJob(w)
  \/ \E a \in Admins, l \in Leads : RetryFind(a, l)
  \/ \E a \in Admins : RetryUpdateMany(a)
  \/ \E a \in Admins : RetryUpdateLead(a)

SpecReliable == Init /\ [][NextReliable]_vars

\* A state of Spec and of SpecReliable: both Jobs of the Lead failed twice and
\* were claimed a third time at 30 s; one handler then failed for good, the
\* other succeeded.  The workers are back at their claim, no admin request
\* has been made yet.
InitAfterFailure ==
  /\ horizon = 30000 + MaxNow
  /\ now = 30000
  /\ leadStatus = [l \in Leads |-> "failed"]
  /\ hasSource = [l \in Leads |-> TRUE]
  /\ subStatus = [j \in JobIds |-> IF TypeOf(j) = "append_to_sheets" THEN "FAILED" ELSE "SUCCESS"]
  /\ jobs = [j \in JobIds |->
               [status |-> IF TypeOf(j) = "append_to_sheets" THEN "FAILED" ELSE "COMPLETED",
                attempts |-> 3, lastError |-> "error", runAt |-> 30000]]
  /\ ipc = [l \in Leads |-> "done"]
  /\ pc = [w \in Workers |-> "claim"]
  /\ wjob = [w \in Workers |-> NoJob]
  /\ wattempts = [w \in Workers |-> 0]
  /\ success = [w \in Workers |-> FALSE]
  /\ newStatus = [w \in Workers |-> "none"]
  /\ newRunAt = [w \in Workers |-> 0]
  /\ released = [w \in Workers |-> FALSE]
  /\ wroteLead = [w \in Workers |-> FALSE]
  /\ apc = [a \in Admins |-> "idle"]
  /\ aLead = [a \in Admins |-> "none"]
  /\ aIds = [a \in Admins |-> {}]
  /\ retryCalls = 0
  /\ storeErrors = 0
  /\ configured = [t \in JOB_TYPES |-> TRUE]
  /\ sink = [j \in JobIds |-> TypeOf(j) = "push_to_bitrix"]
  /\ sheet = <<>>
  /\ hpc = [w \in Workers |-> "idle"]
  /\ headerExists = [w \in Workers |-> FALSE]
  /\ hcalls = [w \in Workers |-> 0]

\* workers and admins on a Lead that is already ingested, reliable store
NextAfterFailure ==
  \/ Tick
  \/ \E w \in Workers : ClaimJob(w)
  \/ \E w \in Workers : ClaimNone(w)
  \/ \E w \in Workers : Wake(w)
  \/ \E w \in Workers : Populate(w)
  \/ \E w \in Workers : RunHandler(w)
  \/ \E w \in Workers : WriteSubStatus(w)
  \/ \E w \in Workers : CompleteJob(w)
  \/ \E w \in Workers : CountPending(w)
  \/ \E w \in Workers : CountFailed(w)
  \/ \E w \in Workers : MarkLeadSuccess(w)
  \/ \E w \in Workers : FailLead(w)
  \/ \E w \in Workers : FailJob(w)
  \/ \E a \in Admins, l \in Leads : RetryFind(a, l)
  \/ \E a \in Admins : RetryUpdateMany(a)
  \/ \E a \in Admins : RetryUpdateLead(a)

SpecAfterFailure == InitAfterFailure /\ [][NextAfterFailure]_vars

\* Jobs whose Lead cannot be populated: the Lead was ingested, then the Lead
\* document or its Source document was removed from the store.  The window
\* is long enough for three attempts of a Job whose first attempt is slow.
InitStructural ==
  /\ horizon = 2 * MaxNow
  /\ now = 0
  /\ \E gone \in BOOLEAN :
       leadStatus = [l \in Leads |-> IF gone THEN "none" ELSE "queued"]
  /\ hasSource = [l \in Leads |-> FALSE]
  /\ subStatus = [j \in JobIds |-> "PENDING"]
  /\ jobs = [j \in JobIds |-> NewJob(0)]
  /\ ipc = [l \in Leads |-> "done"]
  /\ pc = [w \in Workers |-> "claim"]
  /\ wjob = [w \in Workers |-> NoJob]
  /\ wattempts = [w \in Workers |-> 0]
  /\ success = [w \in Workers |-> FALSE]
  /\ newStatus = [w \in Workers |-> "none"]
  /\ newRunAt = [w \in Workers |-> 0]
  /\ released = [w \in Workers |-> FALSE]
  /\ wroteLead = [w \in Workers |-> FALSE]
  /\ apc = [a \in Admins |-> "idle"]
  /\ aLead = [a \in Admins |-> "none"]
  /\ aIds = [a \in Admins |-> {}]
  /\ retryCalls = 0
  /\ storeErrors = 0
  /\ configured = [t \in JOB_TYPES |-> TRUE]
  /\ sink = [j \in JobIds |-> FALSE]
  /\ sheet = <<>>
  /\ hpc = [w \in Workers |-> "idle"]
  /\ headerExists = [w \in Workers |-> FALSE]
  /\ hcalls = [w \in Workers |-> 0]

\* one iteration step of the loop of worker w on such Jobs
StructuralStep(w) ==
  \/ ClaimJob(w)
  \/ ClaimNone(w)
  \/ Wake(w)
  \/ Populate(w)
  \/ FailLead(w)
  \/ FailJob(w)

NextStructural ==
  \/ Tick
  \/ \E w \in Workers : StructuralStep(w)

\* every dispatch loop keeps running and the clock keeps advancing
SpecStructural ==
  /\ InitStructural
  /\ [][NextStructural]_vars
  /\ WF_vars(Tick)
  /\ \A w \in Workers : WF_vars(StructuralStep(w))


\* one step of the dispatch loop of worker w, store errors included
LoopStep(w) ==
  \/ ClaimJob(w)
  \/ ClaimNone(w)
  \/ ClaimError(w)
  \/ Wake(w)
  \/ Populate(w)
  \/ PopulateError(w)
  \/ RunHandler(w)
  \/ HandlerThrows(w)
  \/ WriteSubStatus(w)
  \/ CompleteJob(w)
  \/ CountPending(w)
  \/ CountFailed(w)
  \/ MarkLeadSuccess(w)
  \/ TryStoreError(w)
  \/ FailLead(w)
  \/ FailJob(w)
  \/ CatchStoreError(w)

\* ingestion and the dispatch loops, no admin request
NextLoop ==
  \/ Tick
  \/ \E l \in Leads : IngestSaveLead(l)
  \/ \E l \in Leads : IngestInsertJobs(l)
  \/ \E l \in Leads : IngestInsertError(l)
  \/ \E w \in Workers : LoopStep(w)

\* every store call and every handler call answers or raises in the end, and
\* every sleep ends: each loop takes its next step
SpecLoop ==
  /\ Init
  /\ [][NextLoop]_vars
  /\ \A w \in Workers : WF_vars(LoopStep(w))

\* the worker process of w dies while it awaits the handler: its loop is
\* gone, the store keeps what the claim wrote
Crash(w) ==
  /\ pc[w] = "handler"
  /\ Cardinality({v \in Workers : pc[v] = "crashed"}) < MaxCrashes
  /\ pc' = [pc EXCEPT ![w] = "crashed"]
  /\ UNCHANGED <<sheetVars, deliveryVars, horizon, hasSource, now, storeVars, ipc, wjob, wattempts, success, newStatus,
                 newRunAt, released, wroteLead, adminVars, storeErrors>>

\* one step of the dispatch loop of worker w with a store that answers
WorkerStep(w) ==
  \/ ClaimJob(w)
  \/ ClaimNone(w)
  \/ Wake(w)
  \/ Populate(w)
  \/ RunHandler(w)
  \/ WriteSubStatus(w)
  \/ CompleteJob(w)
  \/ CountPending(w)
  \/ CountFailed(w)
  \/ MarkLeadSuccess(w)
  \/ FailLead(w)
  \/ FailJob(w)

\* ingestion and dispatch loops whose process may die, reliable store
NextCrash ==
  \/ Tick
  \/ \E l \in Leads : IngestSaveLead(l)
  \/ \E l \in Leads : IngestInsertJobs(l)
  \/ \E w \in Workers : WorkerStep(w)
  \/ \E w \in Workers : Crash(w)

\* the loops that are alive keep running, requests complete, time passes
SpecCrash ==
  /\ Init
  /\ [][NextCrash]_vars
  /\ WF_vars(Tick)
  /\ \A l \in Leads : WF_vars(IngestSaveLead(l) \/ IngestInsertJobs(l))
  /\ \A w \in Workers : WF_vars(WorkerStep(w))

\* A Lead just ingested: the Lead and its Source are in the store, both Jobs
\* were inserted at time 0, nothing was claimed yet.  The window is long
\* enough for three attempts of a Job whose first attempt is slow.
InitEnqueued ==
  /\ horizon = 2 * MaxNow
  /\ now = 0
  /\ leadStatus = [l \in Leads |-> "queued"]
  /\ hasSource = [l \in Leads |-> TRUE]
  /\ subStatus = [j \in JobIds |-> "PENDING"]
  /\ jobs = [j \in JobIds |-> NewJob(0)]
  /\ ipc = [l \in Leads |-> "done"]
  /\ pc = [w \in Workers |-> "claim"]
  /\ wjob = [w \in Workers |-> NoJob]
  /\ wattempts = [w \in Workers |-> 0]
  /\ success = [w \in Workers |-> FALSE]
  /\ newStatus = [w \in Workers |-> "none"]
  /\ newRunAt = [w \in Workers |-> 0]
  /\ released = [w \in Workers |-> FALSE]
  /\ wroteLead = [w \in Workers |-> FALSE]
  /\ apc = [a \in Admins |-> "idle"]
  /\ aLead = [a \in Admins |-> "none"]
  /\ aIds = [a \in Admins |-> {}]
  /\ retryCalls = 0
  /\ storeErrors = 0
  /\ configured = [t \in JOB_TYPES |-> TRUE]
  /\ sink = [j \in JobIds |-> FALSE]
  /\ sheet = <<>>
  /\ hpc = [w \in Workers |-> "idle"]
  /\ headerExists = [w \in Workers |-> FALSE]
  /\ hcalls = [w \in Workers |-> 0]

\* the dispatch loops alone: reliable store, no admin request, no crash
NextDeliver ==
  \/ Tick
  \/ \E w \in Workers : WorkerStep(w)

\* every dispatch loop keeps running and the clock keeps advancing
SpecDeliver ==
  /\ InitEnqueued
  /\ [][NextDeliver]_vars
  /\ WF_vars(Tick)
  /\ \A w \in Workers : WF_vars(WorkerStep(w))


\* A Lead just ingested whose delivery targets may be incomplete: the Source
\* config lacks sheetId or sheetName, or BITRIX_WEBHOOK_URL is not set.
InitAnyConfig ==
  /\ horizon = 2 * MaxNow
  /\ now = 0
  /\ leadStatus = [l \in Leads |-> "queued"]
  /\ hasSource = [l \in Leads |-> TRUE]
  /\ subStatus = [j \in JobIds |-> "PENDING"]
  /\ jobs = [j \in JobIds |-> NewJob(0)]
  /\ ipc = [l \in Leads |-> "done"]
  /\ pc = [w \in Workers |-> "claim"]
  /\ wjob = [w \in Workers |-> NoJob]
  /\ wattempts = [w \in Workers |-> 0]
  /\ success = [w \in Workers |-> FALSE]
  /\ newStatus = [w \in Workers |-> "none"]
  /\ newRunAt = [w \in Workers |-> 0]
  /\ released = [w \in Workers |-> FALSE]
  /\ wroteLead = [w \in Workers |-> FALSE]
  /\ apc = [a \in Admins |-> "idle"]
  /\ aLead = [a \in Admins |-> "none"]
  /\ aIds = [a \in Admins |-> {}]
  /\ retryCalls = 0
  /\ storeErrors = 0
  /\ configured \in [JOB_TYPES -> BOOLEAN]
  /\ sink = [j \in JobIds |-> FALSE]
  /\ sheet = <<>>
  /\ hpc = [w \in Workers |-> "idle"]
  /\ headerExists = [w \in Workers |-> FALSE]
  /\ hcalls = [w \in Workers |-> 0]

\* the dispatch loops on such a Lead, reliable store
SpecAnyConfig == InitAnyConfig /\ [][NextDeliver]_vars

\* ------------------------------------------------- appendLeadToSheet
\* The handler of append_to_sheets Jobs, one action per call of the Sheets
\* API.  The Leads of the calls share one Source, so one sheet tab, which is
\* empty at the start.
\* the worker enters appendLeadToSheet for a Lead
SheetStart(w) ==
  /\ hpc[w] = "idle"
  /\ hcalls[w] < MaxSheetCalls
  /\ hcalls' = [hcalls EXCEPT ![w] = hcalls[w] + 1]
  /\ hpc' = [hpc EXCEPT ![w] = "check"]
  /\ UNCHANGED <<sheet, headerExists, deliveryVars, horizon, hasSource, now, storeVars, ipc,
                 workerVars, adminVars, storeErrors>>

\* sheets.spreadsheets.values.get(A1:A1); headerExists = values present
SheetCheck(w) ==
  /\ hpc[w] = "check"
  /\ headerExists' = [headerExists EXCEPT ![w] = Len(sheet) > 0]
  /\ hpc' = [hpc EXCEPT ![w] = IF Len(sheet) > 0 THEN "row" ELSE "header"]
  /\ UNCHANGED <<sheet, hcalls, deliveryVars, horizon, hasSource, now, storeVars, ipc,
                 workerVars, adminVars, storeErrors>>

\* if (!headerExists) values.append([HEADER_ROW])
SheetAppendHeader(w) ==
  /\ hpc[w] = "header"
  /\ sheet' = Append(sheet, "header")
  /\ hpc' = [hpc EXCEPT ![w] = "row"]
  /\ UNCHANGED <<headerExists, hcalls, deliveryVars, horizon, hasSource, now, storeVars, ipc,
                 workerVars, adminVars, storeErrors>>

\* values.append([row]); return true
SheetAppendRow(w) ==
  /\ hpc[w] = "row"
  /\ sheet' = Append(sheet, "row")
  /\ hpc' = [hpc EXCEPT ![w] = "idle"]
  /\ headerExists' = [headerExists EXCEPT ![w] = FALSE]
  /\ UNCHANGED <<hcalls, deliveryVars, horizon, hasSource, now, storeVars, ipc,
                 workerVars, adminVars, storeErrors>>

\* a call of the Sheets API raises: catch, ErrorLog.create, return false
SheetApiError(w) ==
  /\ hpc[w] \in {"check", "header", "row"}
  /\ hpc' = [hpc EXCEPT ![w] = "idle"]
  /\ headerExists' = [headerExists EXCEPT ![w] = FALSE]
  /\ UNCHANGED <<sheet, hcalls, deliveryVars, horizon, hasSource, now, storeVars, ipc,
                 workerVars, adminVars, storeErrors>>

\* the workers inside appendLeadToSheet
NextSheet ==
  \/ \E w \in Workers : SheetStart(w)
  \/ \E w \in Workers : SheetCheck(w)
  \/ \E w \in Workers : SheetAppendHeader(w)
  \/ \E w \in Workers : SheetAppendRow(w)
  \/ \E w \in Workers : SheetApiError(w)

SpecSheet == Init /\ [][NextSheet]_vars

\* ------------------------------------------------------- shared predicates
\* worker w is inside a processNextJob call that found a Job
InCall(w) == pc[w] \notin {"claim", "sleep"}

\* worker w claimed Job j and has not yet written an outcome to it
Holds(w, j) == InCall(w) /\ wjob[w] = j /\ ~released[w]

\* no ingestion, worker or admin operation is in flight
Quiescent ==
  /\ \A w \in Workers : ~InCall(w)
  /\ \A a \in Admins : apc[a] = "idle"
  /\ \A l \in Leads : ipc[l] # "saved"

JobsOf(l) == {j \in JobIds : LeadOf(j) = l}
Pending(j) == jobs[j].status \in {"QUEUED", "PROCESSING"}

\* the step is a successful claim by w
ClaimStep(w) == pc[w] = "claim" /\ pc'[w] = "populate"

\* ---------------------------------------------------------------------- C1
\* C1: mutual exclusion.  Every QUEUED -> PROCESSING transition of a Job is
\* handed to exactly one worker, and never do two workers both hold the same
\* Job (claimed by them, outcome not yet written).
C1_SingleReceiver ==
  \A j \in JobIds :
    (jobs[j].status = "QUEUED" /\ jobs'[j].status = "PROCESSING")
      => Cardinality({w \in Workers : ClaimStep(w) /\ wjob'[w] = j}) = 1

C1_NoTwoHolders ==
  \A j \in JobIds : \A w1, w2 \in Workers : (Holds(w1, j) /\ Holds(w2, j)) => w1 = w2

C1_MutualExclusion == [][C1_SingleReceiver]_vars /\ []C1_NoTwoHolders

\* ---------------------------------------------------------------------- C2
AllowedTransitions ==
  {<<"absent", "QUEUED">>, <<"QUEUED", "PROCESSING">>, <<"PROCESSING", "COMPLETED">>,
   <<"PROCESSING", "QUEUED">>, <<"PROCESSING", "FAILED">>, <<"FAILED", "QUEUED">>}

\* C2: forward-only transitions.  Every change of a Job's status is a claim
\* (QUEUED -> PROCESSING), an outcome of the claiming worker (PROCESSING ->
\* COMPLETED | QUEUED | FAILED) or the admin reset (FAILED -> QUEUED).
C2_ForwardOnly ==
  [][\A j \in JobIds :
       jobs'[j].status # jobs[j].status
         => <<jobs[j].status, jobs'[j].status>> \in AllowedTransitions]_vars

\* ---------------------------------------------------------------------- C3
\* C3: claim effect.  A successful claim selects a Job that is QUEUED with
\* runAt <= now, sets it to PROCESSING and adds exactly 1 to attempts in the
\* same step, hands the new attempts value to the worker, and changes no
\* other field and no other Job.
C3_ClaimEffect ==
  [][\A w \in Workers :
       ClaimStep(w) =>
         LET j == wjob'[w] IN
           /\ j \in JobIds
           /\ jobs[j].status = "QUEUED"
           /\ jobs[j].runAt <= now
           /\ jobs'[j].status = "PROCESSING"
           /\ jobs'[j].attempts = jobs[j].attempts + 1
           /\ wattempts'[w] = jobs[j].attempts + 1
           /\ jobs'[j].runAt = jobs[j].runAt
           /\ jobs'[j].lastError = jobs[j].lastError
           /\ \A k \in JobIds \ {j} : jobs'[k] = jobs[k]]_vars

\* a worker has just claimed a Job on a retry while the other Job of the Lead
\* is still QUEUED
C3_Witness ==
  \E w \in Workers :
    /\ pc[w] = "populate"
    /\ jobs[wjob[w]].status = "PROCESSING"
    /\ jobs[wjob[w]].attempts = 2
    /\ wattempts[w] = 2
    /\ \E k \in JobIds \ {wjob[w]} : jobs[k].status = "QUEUED"

\* ---------------------------------------------------------------------- C4
\* the step in which worker w enters the catch block and fixes newStatus, newRunAt
FailureStep(w) == pc[w] \notin {"failLead", "failJob"} /\ pc'[w] \in {"failLead", "failJob"}

C4_AttemptsInRange ==
  \A j \in JobIds :
    /\ jobs[j].attempts >= 0
    /\ jobs[j].attempts <= 3
    /\ (jobs[j].status = "QUEUED" /\ jobs[j].lastError # "null") => jobs[j].attempts < 3
    /\ jobs[j].status = "FAILED" => jobs[j].attempts = 3

C4_FailedAtCap ==
  \A w \in Workers : (FailureStep(w) /\ wattempts[w] = 3) => newStatus'[w] = "FAILED"

\* C4: attempt cap.  Every Job has 0 <= attempts <= MAX_ATTEMPTS, a Job that
\* is QUEUED after a failure has attempts < MAX_ATTEMPTS, a FAILED Job has
\* attempts = MAX_ATTEMPTS, and a failure at attempts = MAX_ATTEMPTS is
\* written FAILED, never re-queued.
C4_AttemptCap == []C4_AttemptsInRange /\ [][C4_FailedAtCap]_vars

CompletedReturn(w) ==
  pc[w] \in {"countPending", "countFailed", "markSuccess"} /\ pc'[w] = "claim"

\* the call of w ends with the write of FAILED to its Job
FailedReturn(w) ==
  /\ pc[w] = "failJob" /\ pc'[w] = "sleep"
  /\ newStatus[w] = "FAILED" /\ storeErrors' = storeErrors

\* the call of w ends and its Job reached a terminal state in it
TerminalReturn(w) == CompletedReturn(w) \/ FailedReturn(w)

\* the call of w that ends in this step wrote Lead.status
CallWroteLead(w) == wroteLead[w] \/ (pc[w] = "markSuccess" /\ pc'[w] = "claim")

\* C6: aggregation suppressed while pending.  A call that brought its Job to
\* a terminal state while another Job of the same Lead is still QUEUED or
\* PROCESSING has not written Lead.status.
C6_SuppressedWhilePending ==
  [][\A w \in Workers :
       (/\ TerminalReturn(w)
        /\ \E k \in JobsOf(LeadOf(wjob[w])) \ {wjob[w]} : Pending(k))
         => ~CallWroteLead(w)]_vars

\* C7: aggregation to Failed.  When a call brought its Job to a terminal state
\* and the Lead then has no pending Job and at least one FAILED Job, the Lead
\* is Failed when the call ends.
C7_AggregatesFailed ==
  [][\A w \in Workers :
       LET l == LeadOf(wjob[w]) IN
         (/\ TerminalReturn(w)
          /\ \A k \in JobsOf(l) : jobs'[k].status \notin {"QUEUED", "PROCESSING"}
          /\ \E k \in JobsOf(l) : jobs'[k].status = "FAILED")
           => leadStatus'[l] = "failed"]_vars

\* the call of w ends, it had written COMPLETED, and now every Job of the
\* Lead is COMPLETED
C8_LastCompletion(w) ==
  /\ InCall(w) /\ released[w] /\ pc'[w] \in {"claim", "sleep"}
  /\ \A k \in JobsOf(LeadOf(wjob[w])) : jobs'[k].status = "COMPLETED"

\* C8: aggregation to Success.  The worker whose completion leaves every Job
\* of the Lead COMPLETED writes Success, and a Lead whose Jobs are all
\* COMPLETED while nothing is in flight has status Success.
C8_AggregatesSuccess ==
  /\ [][\A w \in Workers :
          C8_LastCompletion(w)
            => (pc[w] = "markSuccess" /\ leadStatus'[LeadOf(wjob[w])] = "success")]_vars
  /\ [](\A l \in Leads :
          (Quiescent /\ \A k \in JobsOf(l) : jobs[k].status = "COMPLETED")
            => leadStatus[l] = "success")

\* --------------------------------------------------------------- C9, C10
\* C9: Lead status is never ahead of its Jobs.  A Lead that is Success or
\* Failed has no QUEUED or PROCESSING Job.
C9_LeadNotAhead ==
  \A l \in Leads :
    leadStatus[l] \in {"success", "failed"} => \A k \in JobsOf(l) : ~Pending(k)

\* C10: Failed takes precedence over Success.  A Lead that is Success has no
\* FAILED Job; every Job of it is COMPLETED.
C10_SuccessMeansAllCompleted ==
  \A l \in Leads :
    leadStatus[l] = "success" => \A k \in JobsOf(l) : jobs[k].status = "COMPLETED"

\* --------------------------------------------------------------------- C11
\* the step is the Job.updateMany of retry request a
RetryWriteStep(a) == apc[a] = "updateMany" /\ apc'[a] = "updateLead"

\* C11: admin retry effect.  The Job write of a retry request sets every Job
\* of the Lead that is FAILED to QUEUED, attempts 0, lastError null, runAt now
\* and leaves every other Job as it was; the Lead write that follows sets the
\* Lead to Queued.
C11_RetryEffect ==
  [][\A a \in Admins :
       /\ RetryWriteStep(a) =>
            \A j \in JobIds :
              IF LeadOf(j) = aLead[a] /\ jobs[j].status = "FAILED"
                THEN jobs'[j] = [status |-> "QUEUED", attempts |-> 0,
                                 lastError |-> "null", runAt |-> now]
                ELSE jobs'[j] = jobs[j]
       /\ (apc[a] = "updateLead" /\ apc'[a] = "idle" /\ storeErrors' = storeErrors) =>
            leadStatus'[aLead[a]] = "queued"]_vars

\* --------------------------------------------------------------------- C12
\* the step is the Job.find of a new retry request
RetryRequestStep == retryCalls' = retryCalls + 1

\* C12: idempotent re-entry.  A retry request made while no Job is FAILED
\* changes no Job and no field of the Lead and ends at once, with no write
\* left to do, whatever the statuses of the Lead and of its Jobs are.
C12_NoFailedNoop ==
  [][(RetryRequestStep /\ \A j \in JobIds : jobs[j].status # "FAILED")
       => /\ jobs' = jobs
          /\ leadStatus' = leadStatus
          /\ subStatus' = subStatus
          /\ apc' = apc /\ aIds' = aIds]_vars

\* a retry request was made on a Lead whose Jobs never failed for good (the
\* clock has not moved) and the Lead is still Success with both Jobs COMPLETED
C12_Witness ==
  /\ retryCalls >= 1
  /\ now = 0
  /\ \A a \in Admins : apc[a] = "idle"
  /\ \A l \in Leads : leadStatus[l] = "success"
  /\ \A j \in JobIds : jobs[j].status = "COMPLETED"

\* --------------------------------------------------------------------- C13
\* the aggregate of the Jobs of Lead l, defined once they are all terminal
Aggregate(l) ==
  IF \E k \in JobsOf(l) : jobs[k].status = "FAILED" THEN "failed" ELSE "success"

\* C13: re-aggregation after retry.  After a retry request, once every Job
\* of the Lead is COMPLETED or FAILED again and no worker call and no retry
\* request is in flight, Lead.status is the aggregate of its Jobs: Failed if
\* a Job is FAILED, Success otherwise.
C13_ReaggregatedAfterRetry ==
  \A l \in Leads :
    (/\ retryCalls >= 1
     /\ Quiescent
     /\ \A k \in JobsOf(l) : jobs[k].status \in {"COMPLETED", "FAILED"})
      => leadStatus[l] = Aggregate(l)

\* --------------------------------------------------------------------- C14
\* C14: structural failure becomes terminal.  A Job whose Lead is missing or
\* has no Source, once QUEUED or PROCESSING, eventually is FAILED; it does
\* not stay PROCESSING.
C14_StructuralTerminal ==
  \A j \in JobIds :
    (jobs[j].status \in {"QUEUED", "PROCESSING"}) ~> (jobs[j].status = "FAILED")

\* --------------------------------------------------------------------- C15
\* the loop of w starts await sleep(POLLING_INTERVAL_MS) in this step
SleepStep(w) == pc[w] # "sleep" /\ pc'[w] = "sleep"

\* C15: drain behaviour.  A dispatch loop goes to sleep only when a claim
\* returned none: whenever it starts to sleep, no Job is left that is QUEUED
\* with runAt <= now, whether the handler of the Job before succeeded or
\* failed.
C15_DrainsWithoutSleep ==
  [][\A w \in Workers :
       SleepStep(w) =>
         /\ pc[w] = "claim"
         /\ \A j \in JobIds : ~(jobs'[j].status = "QUEUED" /\ jobs'[j].runAt <= now')]_vars

NoJobReturn(w) == pc[w] \in {"claim", "populate"} /\ pc'[w] = "sleep"

\* C17: claim with nothing eligible or with the store failing.  When the
\* claim of a call answers none or raises, the call has changed no Job and no
\* Lead, and the loop sleeps before it polls again.
C17_NoJobNoEffect ==
  [][\A w \in Workers :
       NoJobReturn(w) =>
         /\ wjob[w] = NoJob
         /\ jobs' = jobs /\ leadStatus' = leadStatus /\ subStatus' = subStatus]_vars

\* --------------------------------------------------------------------- C18
\* the worker that claimed Job j died before it wrote an outcome
CrashedHolder(j) == \E w \in Workers : pc[w] = "crashed" /\ wjob[w] = j

\* C18: crash accounting.  The attempts increment of the claim is in the
\* store when the handler runs, and a Job whose claiming worker died during
\* the handler is seen again by the queue: it becomes QUEUED or FAILED, its
\* attempt counted.
C18_CrashAccounting ==
  /\ [](\A w \in Workers :
          pc[w] = "handler" =>
            (jobs[wjob[w]].status = "PROCESSING" /\ jobs[wjob[w]].attempts = wattempts[w]
             /\ wattempts[w] >= 1))
  /\ \A j \in JobIds :
       CrashedHolder(j) ~> (jobs[j].status \in {"QUEUED", "FAILED"} /\ jobs[j].attempts >= 1)

\* --------------------------------------------------------------------- C19
\* the step is the Job.insertMany of the ingestion request of Lead l
EnqueueStep(l) == ipc[l] = "saved" /\ ipc'[l] = "done"

\* C19: enqueue.  Jobs come into being only by the bulk insert of an
\* ingestion request, after the Lead was saved; the insert creates one Job
\* per delivery type for that Lead and no other, each QUEUED with attempts 0,
\* lastError null and runAt = the insertion time, hence eligible at once; and
\* no Job exists whose Lead was not persisted.
C19_Enqueue ==
  /\ [][\A l \in Leads :
          /\ EnqueueStep(l) =>
               /\ leadStatus[l] # "none"
               /\ \A t \in JOB_TYPES :
                    /\ jobs[<<l, t>>].status = "absent"
                    /\ jobs'[<<l, t>>] = [status |-> "QUEUED", attempts |-> 0,
                                          lastError |-> "null", runAt |-> now]
                    /\ jobs'[<<l, t>>].runAt <= now'
               /\ \A j \in JobIds : LeadOf(j) # l => jobs'[j] = jobs[j]
          /\ \A j \in JobsOf(l) :
               (jobs[j].status = "absent" /\ jobs'[j].status # "absent") => EnqueueStep(l)]_vars
  /\ [](\A j \in JobIds : jobs[j].status # "absent" => leadStatus[LeadOf(j)] # "none")

\* the Lead was saved, then its two Jobs were inserted and nothing has
\* touched them yet: both are eligible
C19_Witness ==
  \E l \in Leads :
    /\ ipc[l] = "done"
    /\ leadStatus[l] = "queued"
    /\ \A j \in JobsOf(l) :
         /\ jobs[j].status = "QUEUED" /\ jobs[j].attempts = 0
         /\ jobs[j].lastError = "null" /\ jobs[j].runAt <= now
    /\ Cardinality(JobsOf(l)) = Cardinality(JOB_TYPES)

\* --------------------------------------------------------------------- C20
\* the step of w writes Lead.status of l because the Job of w reached a
\* terminal state: Success after COMPLETED with nothing pending and nothing
\* failed, Failed at the permanent failure
TerminalLeadWrite(w, l) ==
  /\ LeadOf(wjob[w]) = l
  /\ \/ pc[w] = "markSuccess" /\ released[w] /\ leadStatus'[l] = "success"
     \/ pc[w] = "failLead" /\ wattempts[w] >= MAX_ATTEMPTS /\ leadStatus'[l] = "failed"

\* the step is the Lead.updateOne of a retry request for l
RetryLeadWrite(a, l) ==
  apc[a] = "updateLead" /\ apc'[a] = "idle" /\ aLead[a] = l /\ leadStatus'[l] = "queued"

\* C20: Lead.status is written only by aggregation.  The handler call and
\* the sub-status bookkeeping change at most sheetStatus/bitrixStatus of the
\* Lead, a call that ends in a retryable failure has not written Lead.status,
\* and every change of Lead.status is the creation of the Lead, a write at a
\* terminal state of a Job, or the admin retry reset.
C20_LeadStatusWriters ==
  [][/\ \A w \in Workers :
          /\ (pc[w] \in {"handler", "subStatus"} /\ pc'[w] # pc[w]) =>
               /\ leadStatus' = leadStatus
               /\ \A j \in JobIds \ {wjob[w]} : subStatus'[j] = subStatus[j]
          /\ (pc[w] = "failJob" /\ pc'[w] = "sleep" /\ newStatus[w] = "QUEUED") =>
               ~wroteLead[w]
     /\ \A l \in Leads :
          leadStatus'[l] # leadStatus[l] =>
            \/ ipc[l] = "new" /\ ipc'[l] = "saved"
            \/ \E w \in Workers : TerminalLeadWrite(w, l)
            \/ \E a \in Admins : RetryLeadWrite(a, l)]_vars

\* a handler failed on the first attempt: the sub-status says FAILED, the Job
\* is re-queued with its error, and the Lead is still Queued
C20_Witness ==
  \E j \in JobIds :
    /\ subStatus[j] = "FAILED"
    /\ jobs[j].status = "QUEUED" /\ jobs[j].attempts = 1 /\ jobs[j].lastError = "error"
    /\ leadStatus[LeadOf(j)] = "queued"
    /\ retryCalls = 0

\* --------------------------------------------------------------------- C21
\* the step is the Job.updateOne of the catch block of w
FailureWrite(w) == pc[w] = "failJob" /\ pc'[w] = "sleep" /\ storeErrors' = storeErrors

\* C21: retry transition.  When the handler of a claimed Job returned false
\* or threw and the attempts value a returned by the claim is below 3, the
\* catch block fixes runAt = time of the failure + 5 s * 5^(a-1), and its
\* write stores status QUEUED, lastError and that runAt, leaving attempts as
\* it is in the store.
C21_RetryTransition ==
  [][\A w \in Workers :
       /\ (FailureStep(w) /\ ~success[w] /\ wattempts[w] < 3) =>
            /\ newStatus'[w] = "QUEUED"
            /\ newRunAt'[w] = now + 5000 * (IF wattempts[w] = 1 THEN 1 ELSE 5)
       /\ (FailureWrite(w) /\ ~success[w] /\ wattempts[w] < 3) =>
            /\ jobs'[wjob[w]].status = "QUEUED"
            /\ jobs'[wjob[w]].lastError = "error"
            /\ jobs'[wjob[w]].runAt = newRunAt[w]
            /\ jobs'[wjob[w]].attempts = jobs[wjob[w]].attempts
            /\ \A k \in JobIds \ {wjob[w]} : jobs'[k] = jobs[k]]_vars

\* a Job failed its second attempt at 5 s: it is QUEUED again for 30 s, its
\* attempts still 2
C21_Witness ==
  \E j \in JobIds :
    /\ jobs[j].status = "QUEUED" /\ jobs[j].attempts = 2
    /\ jobs[j].lastError = "error" /\ jobs[j].runAt = 30000
    /\ now = 5000

C23_OldestDueFirst ==
  [][\A w \in Workers :
       ClaimStep(w) =>
         \A k \in JobIds :
           (jobs[k].status = "QUEUED" /\ jobs[k].runAt <= now)
             => jobs[wjob'[w]].runAt <= jobs[k].runAt]_vars

\* two Jobs were eligible with different runAt (0 s and 5 s, the second one
\* re-queued after a failure); the claim took the one due since 0 s
C23_Witness ==
  \E w \in Workers, k \in JobIds :
    /\ pc[w] = "populate"
    /\ wjob[w] # k
    /\ jobs[wjob[w]].runAt = 0
    /\ jobs[k].status = "QUEUED" /\ jobs[k].runAt = 5000
    /\ now >= 5000

\* --------------------------------------------------------------------- C24
\* the step is a claim of Job j
ClaimOf(j) == \E w \in Workers : ClaimStep(w) /\ wjob'[w] = j

\* the step is the Job write of a retry request that had selected Job j
ResetOf(j) == \E a \in Admins : RetryWriteStep(a) /\ j \in aIds[a]

\* C24: attempts counts claims.  A Job is created with attempts 0, every
\* claim of it adds exactly 1, the admin reset sets it to 0, and no other
\* step changes it: attempts is the number of claims since the creation or
\* the latest reset.
C24_AttemptsCountsClaims ==
  [][\A j \in JobIds :
       /\ (jobs[j].status = "absent" /\ jobs'[j].status # "absent") => jobs'[j].attempts = 0
       /\ ClaimOf(j) => jobs'[j].attempts = jobs[j].attempts + 1
       /\ ResetOf(j) => jobs'[j].attempts = 0
       /\ jobs'[j].attempts > jobs[j].attempts => ClaimOf(j)
       /\ jobs'[j].attempts < jobs[j].attempts => ResetOf(j)]_vars

\* a Job that had failed three times was reset by a retry request and has
\* been claimed once since
C24_Witness ==
  /\ retryCalls >= 1
  /\ \E j \in JobIds :
       /\ jobs[j].status = "PROCESSING" /\ jobs[j].attempts = 1
       /\ \E w \in Workers : wjob[w] = j /\ pc[w] = "handler"
  /\ \A a \in Admins : apc[a] = "idle"

\* --------------------------------------------------------------------- C25
\* C25: exclusive ownership while PROCESSING.  While a worker holds a Job
\* (claimed, outcome not yet written) only a step of a worker that holds it
\* changes the Job, and the Job write of a retry request changes only Jobs
\* that are FAILED at that moment.
C25_ExclusiveOwnership ==
  [][\A j \in JobIds :
       /\ ((\E w \in Workers : Holds(w, j)) /\ jobs'[j] # jobs[j])
            => \E w \in Workers : Holds(w, j) /\ pc'[w] # pc[w]
       /\ ((\E a \in Admins : RetryWriteStep(a)) /\ jobs'[j] # jobs[j])
            => jobs[j].status = "FAILED"]_vars

\* --------------------------------------------------------------------- C26
\* C26: no automatic reclaim.  Once the worker that claimed a Job has died
\* before writing its outcome, the Job stays PROCESSING as the claim left it:
\* no step changes it, and the Lead of the Job is not moved to Success or
\* Failed.
C26_NoReclaim ==
  [][\A j \in JobIds :
       CrashedHolder(j) =>
         /\ jobs[j].status = "PROCESSING"
         /\ jobs'[j] = jobs[j]
         /\ leadStatus'[LeadOf(j)] # leadStatus[LeadOf(j)]
              => leadStatus'[LeadOf(j)] \notin {"success", "failed"}]_vars

\* --------------------------------------------------------------------- C27
\* C27: every Job terminates.  With dispatch loops that keep running,
\* handlers that return, a store that answers and no admin retry, every
\* enqueued Job is claimed at most 3 times, eventually is COMPLETED or FAILED,
\* and a Job that is COMPLETED or FAILED is not changed any more.
C27_EveryJobTerminates ==
  /\ [](\A j \in JobIds : jobs[j].attempts <= MAX_ATTEMPTS)
  /\ [][\A j \in JobIds :
          jobs[j].status \in {"COMPLETED", "FAILED"} => jobs'[j] = jobs[j]]_vars
  /\ \A j \in JobIds : <>(jobs[j].status \in {"COMPLETED", "FAILED"})

\* one Job failed three times and is FAILED, the other completed after a
\* retry, and every loop is back at its poll
C27_Witness ==
  /\ \E j \in JobIds : jobs[j].status = "FAILED" /\ jobs[j].attempts = MAX_ATTEMPTS
  /\ \E j \in JobIds : jobs[j].status = "COMPLETED" /\ jobs[j].attempts = 2
  /\ \A w \in Workers : pc[w] \in {"claim", "sleep"}

\* --------------------------------------------------------------------- C28
\* C28: lastError discipline.  A Job is created with lastError null; lastError
\* becomes non-null only by the catch block of a call that had claimed the
\* Job and whose attempt failed (the handler returned false or a call raised);
\* a completion leaves it as it is; the admin reset sets it to null, and
\* nothing else clears it.
C28_LastErrorDiscipline ==
  [][\A j \in JobIds :
       /\ (jobs[j].status = "absent" /\ jobs'[j].status # "absent")
            => jobs'[j].lastError = "null"
       /\ ResetOf(j) => jobs'[j].lastError = "null"
       /\ (jobs[j].lastError = "null" /\ jobs'[j].lastError # "null")
            => \E w \in Workers :
                 /\ FailureWrite(w)
                 /\ wjob[w] = j
                 /\ (~success[w] \/ storeErrors >= 1)
       /\ (jobs[j].status # "absent" /\ jobs[j].lastError # "null"
             /\ jobs'[j].lastError = "null")
            => ResetOf(j)]_vars

\* a Job that had failed for good was reset by an admin request and then
\* completed on its first attempt: its lastError is null
C28_Witness ==
  /\ retryCalls >= 1
  /\ \A a \in Admins : apc[a] = "idle"
  /\ \E j \in JobIds :
       /\ TypeOf(j) = "append_to_sheets"
       /\ jobs[j].status = "COMPLETED"
       /\ jobs[j].attempts = 1
       /\ jobs[j].lastError = "null"

\* --------------------------------------------------------------------- C29
\* C29: a worker releases what it claims.  No process dies, and still: when
\* the call of a worker that claimed a Job has returned or thrown and the
\* loop is back at its poll or asleep, the Job it claimed is not left
\* PROCESSING by that call; so with no call in flight no Job is PROCESSING.
C29_ReleasesClaim ==
  (\A w \in Workers : ~InCall(w)) =>
     \A j \in JobIds : jobs[j].status # "PROCESSING"

\* --------------------------------------------------------------------- C30
\* C30: Lead Failed is backed by a FAILED Job.  In every state a Lead whose
\* status is failed has at least one Job that is FAILED, and a Lead that has
\* a FAILED Job and no QUEUED or PROCESSING Job is not queued.
C30_FailedLeadBacked ==
  \A l \in Leads :
    /\ leadStatus[l] = "failed" => \E j \in JobsOf(l) : jobs[j].status = "FAILED"
    /\ ((\E j \in JobsOf(l) : jobs[j].status = "FAILED")
          /\ (\A j \in JobsOf(l) : ~Pending(j)))
         => leadStatus[l] # "queued"

\* --------------------------------------------------------------------- C31
\* C31: Completed means delivered.  A Job becomes COMPLETED only when the
\* sink of its type holds the Lead, and a Lead is success only when the sinks
\* of all its Jobs hold it.
C31_CompletedMeansDelivered ==
  /\ \A j \in JobIds : jobs[j].status = "COMPLETED" => sink[j]
  /\ \A l \in Leads : leadStatus[l] = "success" => \A j \in JobsOf(l) : sink[j]

\* --------------------------------------------------------------------- C32
\* C32: sub-status agrees with Job status.  In every state a Job that is
\* COMPLETED has the sub-status of its type (sheetStatus, bitrixStatus) at
\* SUCCESS on its Lead.
C32_SubStatusAgrees ==
  \A j \in JobIds : jobs[j].status = "COMPLETED" => subStatus[j] = "SUCCESS"

\* --------------------------------------------------------------------- C33
\* C33: ingestion leaves no orphan Lead.  Whenever the ingestion request of
\* a Lead is over, whether it answered 201 or 500, and the Lead is queued,
\* one Job of each delivery type exists for the Lead.
C33_NoOrphanLead ==
  \A l \in Leads :
    (ipc[l] \in {"done", "failed"} /\ leadStatus[l] = "queued")
      => \A j \in JobsOf(l) : jobs[j].status # "absent"

\* --------------------------------------------------------------------- C34
\* C34: sheet header written once.  With workers running appendLeadToSheet
\* at the same time on one tab that was empty, the tab holds at most one
\* header row and it is the first row: a row of the tab is the header exactly
\* when it is row 1.
C34_HeaderOnce ==
  \A i \in 1..Len(sheet) : (sheet[i] = "header") <=> (i = 1)

====
